---- MODULE Spec2Model ----
(***************************************************************************)
(* A model of BluecatClient (src/bluecat_bam_tools/bluecat_client.py): the *)
(* session state machine (login, logout, the with-block), the pagination   *)
(* loop of http_get_all, the lookups built on it, find_parent_zones and    *)
(* record_a_create.  The client is sequential: one call is in flight at a  *)
(* time, and each action below is the code that runs up to and including   *)
(* one HTTP request and the processing of its response.                    *)
(*                                                                         *)
(* Strings are sequences of one-character strings wherever the code tests  *)
(* a prefix or splits; a longer element ("networks?filter=...") is an      *)
(* opaque tail that no prefix test of the code can match.                  *)
(***************************************************************************)
EXTENDS Integers, Sequences, FiniteSets, TLC

VARIABLES
    logged_in,      \* self.logged_in
    session,        \* self.session: [state, authorization]
    scope,          \* "out" | "in": inside a with-block on the client
    open_sessions,  \* history: the requests.Session objects the client created and has not closed
    wasLoggedIn,    \* history: the session was LoggedIn inside the current with-block
    patchIssued,    \* history: a LOGGED_OUT request was issued inside the current with-block
    logoutCalled,   \* history: logout() has been called, and login() not since
    pc,             \* "idle" | "get" (http_get_all about to GET url) | "post" | "done"
    call,           \* the call in flight: its name, arguments and the state it started in
    url,            \* http_get_all: url
    all_data,       \* http_get_all: all_data
    fetched,        \* history: the page responses received by the running http_get_all
    stage,          \* which http_get_all of a composite operation is running
    name_parts,     \* find_parent_zones: name_parts
    zones,          \* record_a_create: zones (after the view filter)
    zone_idx,       \* record_a_create: position of the for loop over zones
    queries,        \* history: the zone queries find_parent_zones completed, with their results
    reqs,           \* history: the requests issued by the call in flight
    closes,         \* history: session.close() calls made by the call in flight
    result          \* what the call returned or raised

vars == <<logged_in, session, open_sessions, scope, wasLoggedIn, patchIssued, logoutCalled, pc, call, url,
          all_data, fetched, stage, name_parts, zones, zone_idx, queries, reqs, closes,
          result>>

sessionVars == <<logged_in, session, open_sessions>>
scopeVars == <<scope, wasLoggedIn, patchIssued>>
localVars == <<url, all_data, fetched, stage, name_parts, zones, zone_idx, queries>>

----------------------------------------------------------------------------
(* Bounds *)

\* the longest chain of pages a server serves for one query
MaxPages == 3

\* the most Session objects left open at once
MaxSessions == 2

----------------------------------------------------------------------------
(* Strings *)

StartsWith(s, p) == Len(s) >= Len(p) /\ SubSeq(s, 1, Len(p)) = p

NoUrl == <<>>

hostname == <<"b">>
Https == <<"h", "t", "t", "p", "s", ":", "/", "/">>
Http == <<"h", "t", "t", "p">>
url_base == Https \o hostname
url_api_path == <<"/", "a", "p", "i", "/", "v", "2">>

----------------------------------------------------------------------------
(* Values returned and raised *)

\* a list argument: whether it is a list, its items, whether all of them are strings
ListArg(isList, items, allStr) == [isList |-> isList, items |-> items, allStr |-> allStr]

NoCall == [op |-> "none", debug |-> FALSE, fault |-> "none", loggedIn |-> FALSE,
           afterLogout |-> FALSE, exc |-> FALSE, fqdn |-> <<>>, fqdnIsStr |-> TRUE,
           views |-> ListArg(FALSE, <<>>, TRUE), ips |-> "none", comment |-> "none"]

NoResult == [tag |-> "none", exc |-> "none", val |-> <<>>]
Returns(tag, val) == [tag |-> tag, exc |-> "none", val |-> val]
ReturnsNone == Returns("None", <<>>)
ReturnsTrue == Returns("True", <<>>)
ReturnsFalse == Returns("False", <<>>)
ReturnsList(l) == Returns("list", l)
ReturnsItem(e) == Returns("item", <<e>>)
Raises(exc) == [tag |-> "raise", exc |-> exc, val |-> <<>>]

\* RuntimeError("You must call login() before using this method.")
NotLoggedInError == "RuntimeError: You must call login() before using this method."
\* RuntimeError("'count' not found in response_json")
CountMissingError == "RuntimeError: 'count' not found in response_json"
\* what subscripting None raises
NoneSubscriptError == "TypeError: 'NoneType' object is not subscriptable"

NoSession == [state |-> "None", authorization |-> FALSE]

Request(method, target) ==
    [method |-> method, url |-> target, loggedIn |-> logged_in,
     authorization |-> session.authorization, status |-> "ok", zone |-> 0, name |-> <<>>,
     addresses |-> <<>>]

----------------------------------------------------------------------------
(* __init__ *)

Init ==
    /\ logged_in = FALSE
    /\ session = NoSession
    /\ open_sessions = 0
    /\ scope = "out"
    /\ wasLoggedIn = FALSE
    /\ patchIssued = FALSE
    /\ logoutCalled = FALSE
    /\ pc = "idle"
    /\ call = NoCall
    /\ url = NoUrl
    /\ all_data = <<>>
    /\ fetched = <<>>
    /\ stage = "none"
    /\ name_parts = <<>>
    /\ zones = <<>>
    /\ zone_idx = 0
    /\ queries = <<>>
    /\ reqs = <<>>
    /\ closes = 0
    /\ result = NoResult

----------------------------------------------------------------------------
(* login *)

\* what the POST to /sessions and the decoding of its response can do
LoginOutcomes == {"token", "no_token", "ConnectionError", "ConnectTimeout", "Timeout",
                  "HTTPError", "TooManyRedirects", "JSONDecodeError",
                  "requests.JSONDecodeError"}
LoginFailures == LoginOutcomes \ {"token", "no_token"}

\* isinstance(exc, cls) for the classes the except clauses of login name
IsInstance(exc, cls) ==
    \/ exc = cls
    \/ cls = "RequestException" /\ exc \in {"ConnectionError", "ConnectTimeout", "Timeout",
                                            "HTTPError", "TooManyRedirects",
                                            "requests.JSONDecodeError"}
    \/ cls = "ConnectionError" /\ exc = "ConnectTimeout"
    \/ cls = "Timeout" /\ exc = "ConnectTimeout"
    \/ cls = "JSONDecodeError" /\ exc = "requests.JSONDecodeError"

\* the except clauses of login, in order, with the message each passes on
LoginHandlers == <<
    [cls |-> "ConnectionError", message |-> "Unable to connect to the server"],
    [cls |-> "Timeout", message |-> "Request timed out"],
    [cls |-> "HTTPError", message |-> "HTTP error occurred"],
    [cls |-> "RequestException", message |-> "An unexpected error occurred"],
    [cls |-> "JSONDecodeError", message |-> "Error decoding JSON response"] >>

\* the first except clause that catches exc (0: none does)
LoginHandlerOf(exc) ==
    LET hits == {i \in 1..Len(LoginHandlers) : IsInstance(exc, LoginHandlers[i].cls)}
    IN IF hits = {} THEN 0 ELSE CHOOSE i \in hits : \A j \in hits : i <= j

HandleLoginExceptionAlwaysSimple(exc, message, debug) == Raises("LoginError")

\* _handle_login_exception
handle_login_exception(exc, message, debug) ==
    IF debug THEN Raises(exc) ELSE Raises("LoginError")

LoginNoTokenCheckMissing(outcome) == outcome = "token" \/ outcome = "no_token"

\* login, lines 93-96: the response carries a token
LoginHasToken(outcome) == outcome = "token"

Login ==
    /\ pc = "idle"
    /\ \E debug \in BOOLEAN, outcome \in LoginOutcomes :
        /\ LoginHasToken(outcome) => open_sessions < MaxSessions
        /\ call' = [NoCall EXCEPT !.op = "login", !.debug = debug, !.fault = outcome,
                                  !.loggedIn = logged_in]
        /\ reqs' = <<[Request("POST", url_base \o url_api_path \o <<"/", "sessions">>)
                        EXCEPT !.authorization = FALSE]>>
        /\ closes' = 0
        /\ IF outcome \in LoginFailures
           THEN /\ result' = (IF LoginHandlerOf(outcome) = 0
                              THEN Raises(outcome)
                              ELSE handle_login_exception(outcome,
                                       LoginHandlers[LoginHandlerOf(outcome)].message, debug))
                /\ UNCHANGED <<sessionVars, wasLoggedIn>>
           ELSE IF ~LoginHasToken(outcome)
           THEN /\ result' = ReturnsFalse
                /\ UNCHANGED <<sessionVars, wasLoggedIn>>
           ELSE /\ session' = [state |-> "open", authorization |-> TRUE]
                /\ open_sessions' = open_sessions + 1
                /\ logged_in' = TRUE
                /\ wasLoggedIn' = (scope = "in")
                /\ result' = ReturnsTrue
    /\ logoutCalled' = FALSE
    /\ pc' = "done"
    /\ UNCHANGED <<scope, patchIssued, localVars>>

----------------------------------------------------------------------------
(* logout and the with-block *)

\* what the PATCH to /sessions/current can do
LogoutOutcomes == {"ok", "HTTPError", "ConnectionError"}

LogoutOnlyWhenNoException(exc) == ~exc

\* __exit__ calls logout whatever exc_type is
ExitCallsLogout(exc) == TRUE

LogoutLeavesLoggedIn == TRUE

\* line 154: self.logged_in = False
LoggedInAfterLogout == FALSE

\* logout, with the state changes of lines 137-154
LogoutBody(outcome) ==
    IF session.state # "None" /\ logged_in
    THEN /\ reqs' = <<Request("PATCH", url_base \o url_api_path
                                        \o <<"/", "sessions", "/", "current">>)>>
         /\ patchIssued' = (scope = "in")
         /\ IF outcome = "ok"
            THEN /\ session' = [session EXCEPT !.state = "closed"]
                 /\ open_sessions' = IF session.state = "open" THEN open_sessions - 1
                                     ELSE open_sessions
                 /\ closes' = 1
                 /\ logged_in' = LoggedInAfterLogout
                 /\ result' = ReturnsNone
            ELSE /\ result' = Raises(outcome)
                 /\ closes' = 0
                 /\ UNCHANGED sessionVars
    ELSE /\ reqs' = <<>>
         /\ closes' = 0
         /\ result' = ReturnsNone
         /\ UNCHANGED <<sessionVars, patchIssued>>

Logout ==
    /\ pc = "idle"
    /\ \E outcome \in LogoutOutcomes :
        /\ call' = [NoCall EXCEPT !.op = "logout", !.fault = outcome, !.loggedIn = logged_in,
                                  !.afterLogout = logoutCalled]
        /\ LogoutBody(outcome)
    /\ logoutCalled' = TRUE
    /\ pc' = "done"
    /\ UNCHANGED <<scope, wasLoggedIn, localVars>>

\* __enter__
Enter ==
    /\ pc = "idle"
    /\ scope = "out"
    /\ scope' = "in"
    /\ wasLoggedIn' = logged_in
    /\ patchIssued' = FALSE
    /\ UNCHANGED <<sessionVars, logoutCalled, pc, call, localVars, reqs, closes, result>>

\* __exit__: the body of the with-block ended, normally (exc = FALSE) or by an
\* exception (exc = TRUE)
Exit ==
    /\ pc = "idle"
    /\ scope = "in"
    /\ \E exc \in BOOLEAN, outcome \in LogoutOutcomes :
        /\ call' = [NoCall EXCEPT !.op = "__exit__", !.fault = outcome, !.exc = exc,
                                  !.loggedIn = logged_in, !.afterLogout = logoutCalled]
        /\ IF ExitCallsLogout(exc)
           THEN /\ LogoutBody(outcome)
                /\ logoutCalled' = TRUE
           ELSE /\ reqs' = <<>>
                /\ closes' = 0
                /\ result' = ReturnsNone
                /\ UNCHANGED <<sessionVars, patchIssued, logoutCalled>>
    /\ scope' = "out"
    /\ pc' = "done"
    /\ UNCHANGED <<wasLoggedIn, localVars>>

----------------------------------------------------------------------------
(* The server: page responses *)

\* the last path segment of the URL of the d-th page of a chain, d >= 2
PageTok == <<"p1", "p2", "p3", "p4", "p5", "p6">>

\* the 'next' links a page can carry to the page at depth d: absolute, starting
\* with '/', relative, and relative with a first segment that begins with "http"
AbsHref(d) == url_base \o url_api_path \o <<"/", PageTok[d]>>
SlashHref(d) == url_api_path \o <<"/", PageTok[d]>>
RelHref(d) == Tail(url_api_path) \o <<"/", PageTok[d]>>
HttpRelHref(d) == Http \o <<"d", "/", PageTok[d]>>
Hrefs(d) == {AbsHref(d), SlashHref(d), RelHref(d), HttpRelHref(d)}

\* a chain is finite: the page at depth MaxPages carries no link
LinksAt(d) == IF d < MaxPages THEN {NoUrl} \cup Hrefs(d + 1) ELSE {NoUrl}

\* the lists of entities (ids) a page carries
DataLists == {<<>>, <<1>>, <<2>>, <<1, 2>>}

\* the addresses of a network, by id: state and embedded resourceRecords
Addresses == <<
    [state |-> "UNASSIGNED", resourceRecords |-> <<"rr">>],
    [state |-> "STATIC", resourceRecords |-> <<>>],
    [state |-> "STATIC", resourceRecords |-> <<"rr">>],
    [state |-> "DHCP_ALLOCATED", resourceRecords |-> <<>>],
    [state |-> "UNASSIGNED", resourceRecords |-> <<>>] >>

\* the lists of addresses a page of an address query carries
AddressLists == {<<>>, <<1, 3>>, <<2, 4>>, <<3, 5, 2>>}

\* the view of a zone, by id
ZoneView == <<"internal", "external">>

AddressesTail == "addresses?fields=embed(resourceRecords)&filter=state:eq('UNASSIGNED') or state:eq('STATIC')"

List(l) == [shape |-> "list", items |-> l]
NotList(shape) == [shape |-> shape, items |-> <<>>]

CountAbsent == -1

Page(count, data, next) == [status |-> "ok", count |-> count, data |-> data, next |-> next]
Failure(status) == [status |-> status, count |-> CountAbsent, data |-> NotList("absent"),
                    next |-> NoUrl]

\* count (integer), data (a list of count entities), an optional next link
WellFormedPages(d, lists) ==
    {Page(Len(l), List(l), n) : l \in lists, n \in LinksAt(d)}

MalformedPages(d) ==
    {Page(CountAbsent, List(<<1>>), NoUrl)}
    \cup {Page(0, data, n) : data \in {NotList("absent"), NotList("null"), List(<<1>>)},
                             n \in LinksAt(d) \cap {NoUrl, AbsHref(d + 1)}}
    \cup {Page(1, data, NoUrl) : data \in {NotList("absent"), NotList("null"), NotList("dict")}}
    \cup {Page(1, List(<<>>), n) : n \in LinksAt(d) \cap {NoUrl, SlashHref(d + 1)}}

Pages(d, lists) == WellFormedPages(d, lists) \cup MalformedPages(d)

WellFormed(page) ==
    /\ page.status = "ok"
    /\ page.count # CountAbsent
    /\ page.data.shape = "list"
    /\ page.count = Len(page.data.items)

\* the depth in its chain of the page a URL names
PageDepth(u) ==
    IF \E d \in 2..Len(PageTok) : u[Len(u)] = PageTok[d]
    THEN CHOOSE d \in 2..Len(PageTok) : u[Len(u)] = PageTok[d]
    ELSE 1

\* what session.get(u) followed by raise_for_status() can yield
Responses(u) ==
    IF ~StartsWith(u, Http \o <<":", "/", "/">>) /\ ~StartsWith(u, Https)
    THEN {Failure("MissingSchema")}
    ELSE IF ~StartsWith(u, url_base \o url_api_path \o <<"/">>) \/ PageDepth(u) > MaxPages
    THEN {Failure("HTTPError")}
    ELSE Pages(PageDepth(u), IF stage = "addresses" THEN AddressLists ELSE DataLists)
         \cup {Failure("HTTPError"), Failure("ConnectionError")}

----------------------------------------------------------------------------
(* http_get_limited, http_get_all *)

GuardMissing == TRUE

\* lines 171, 204: if not self.logged_in: raise RuntimeError
LoggedInGuard == logged_in

\* lines 174-180, 207-213: the URL of an endpoint path
EndpointUrl(endpoint_path) ==
    LET path == IF StartsWith(endpoint_path, <<"/">>) THEN endpoint_path
                ELSE <<"/">> \o endpoint_path
    IN IF StartsWith(path, url_api_path) THEN url_base \o path
       ELSE url_base \o url_api_path \o path

\* lines 245-250: the URL followed for a next link
ResolveNext(href) ==
    IF href # NoUrl
    THEN IF ~StartsWith(href, Http)
         THEN IF StartsWith(href, <<"/">>)
              THEN Https \o hostname \o href
              ELSE Https \o hostname \o <<"/">> \o href
         ELSE href
    ELSE href

ExtendPrepends(acc, data) == data \o acc

\* line 238: all_data.extend(data)
Extend(acc, data) == acc \o data

ZeroCountIgnored(page) == FALSE

\* line 230: if response_json['count'] == 0
ZeroCount(page) == page.count = 0

CountMissingIgnored(page) == FALSE

\* line 225: if not ('count' in response_json)
CountMissing(page) == page.count = CountAbsent

NextUrlKept(page) == url

\* line 241: url = response_json.get('_links', {}).get('next', {}).get('href')
NextHref(page) == page.next

\* the locals of the call in flight
Cur == [pc |-> pc, url |-> url, all_data |-> all_data, fetched |-> fetched,
        stage |-> stage, name_parts |-> name_parts, zones |-> zones,
        zone_idx |-> zone_idx, queries |-> queries, result |-> result]

Apply(n) ==
    /\ pc' = n.pc
    /\ url' = n.url
    /\ all_data' = n.all_data
    /\ fetched' = n.fetched
    /\ stage' = n.stage
    /\ name_parts' = n.name_parts
    /\ zones' = n.zones
    /\ zone_idx' = n.zone_idx
    /\ queries' = n.queries
    /\ result' = n.result

\* the call ends, returning or raising r
Finish(r, n) == [n EXCEPT !.pc = "done", !.result = r]

\* http_get_all, lines 204-215: up to the first pass of the while loop
BeginGetAll(endpoint_path, n) ==
    IF ~LoggedInGuard
    THEN Finish(Raises(NotLoggedInError), n)
    ELSE [n EXCEPT !.pc = "get", !.url = EndpointUrl(endpoint_path),
                   !.all_data = <<>>, !.fetched = <<>>]

\* http_get_all, lines 217-250: one pass of the while loop on the response resp.
\* [done, out]: the call returned or raised out; otherwise the locals for the next pass
LoopPass(resp) ==
    IF resp.status # "ok"
    THEN [done |-> TRUE, out |-> Raises(resp.status), url |-> url, all_data |-> all_data]
    ELSE IF CountMissing(resp)
    THEN [done |-> TRUE, out |-> Raises(CountMissingError), url |-> url, all_data |-> all_data]
    ELSE IF ZeroCount(resp)
    THEN [done |-> TRUE, out |-> ReturnsList(all_data), url |-> url, all_data |-> all_data]
    ELSE IF resp.data.shape = "absent"
    THEN [done |-> TRUE, out |-> Raises("KeyError"), url |-> url, all_data |-> all_data]
    ELSE IF resp.data.shape # "list"
    THEN [done |-> TRUE, out |-> Raises("TypeError"), url |-> url, all_data |-> all_data]
    ELSE LET acc == Extend(all_data, resp.data.items)
             nxt == ResolveNext(NextHref(resp))
         IN [done |-> nxt = NoUrl, out |-> ReturnsList(acc), url |-> nxt, all_data |-> acc]

----------------------------------------------------------------------------
(* The lookups *)

NetworksByCidrPath == <<"/", "networks?filter=range:eq('cidr')">>
NetworksContainsPath == <<"/", "networks?filter=range:contains('ip')">>
ViewsPath == <<"/", "views?filter=name:eq('view_name')">>
IdTok == <<"1", "2">>
AddressesPath(network) == <<"/", "networks", "/", IdTok[network], "/", AddressesTail>>

\* get_network_by_cidr, lines 270-276, on what http_get_all returned or raised
NetworkByCidrResult(out) ==
    IF out.tag = "raise" THEN out
    ELSE IF Len(out.val) = 0 THEN ReturnsNone
    ELSE IF Len(out.val) # 1 THEN Raises("ValueError")
    ELSE ReturnsItem(out.val[1])

CidrContainsIpNoneForZero(out) ==
    IF out.tag = "raise" THEN out
    ELSE IF Len(out.val) = 0 THEN ReturnsNone
    ELSE IF Len(out.val) # 1 THEN Raises("ValueError")
    ELSE Returns("range", <<out.val[1]>>)

\* get_cidr_contains_ip, lines 294-297
CidrContainsIpResult(out) ==
    IF out.tag = "raise" THEN out
    ELSE IF Len(out.val) # 1 THEN Raises("ValueError")
    ELSE Returns("range", <<out.val[1]>>)

\* get_view, lines 356-360
ViewResult(out) ==
    IF out.tag = "raise" THEN out
    ELSE IF Len(out.val) = 0 THEN ReturnsNone
    ELSE IF Len(out.val) # 1 THEN Raises("RuntimeError: Expected 1 view")
    ELSE ReturnsItem(out.val[1])

IsUnassignedAnyStatic(address) == address.state \in {"UNASSIGNED", "STATIC"}

\* get_unassigned_addresses_in_network_by_cidr, lines 327-336: whether an address is kept
IsUnassigned(address) ==
    IF address.state = "UNASSIGNED" THEN TRUE
    ELSE IF address.state = "STATIC" THEN Len(address.resourceRecords) = 0
    ELSE FALSE

\* lines 326-338
UnassignedResult(out) ==
    IF out.tag = "raise" THEN out
    ELSE ReturnsList(SelectSeq(out.val, LAMBDA e : IsUnassigned(Addresses[e])))

----------------------------------------------------------------------------
(* find_parent_zones *)

RECURSIVE SplitFrom(_, _, _)
\* the parts of s after position i, cur being the part under construction
SplitFrom(s, i, cur) ==
    IF i > Len(s) THEN <<cur>>
    ELSE IF s[i] = "." THEN <<cur>> \o SplitFrom(s, i + 1, <<>>)
    ELSE SplitFrom(s, i + 1, Append(cur, s[i]))

\* fqdn.split('.')
Split(s) == SplitFrom(s, 1, <<>>)

RECURSIVE Join(_)
\* '.'.join(name_parts)
Join(parts) ==
    IF Len(parts) = 0 THEN <<>>
    ELSE IF Len(parts) = 1 THEN parts[1]
    ELSE parts[1] \o <<".">> \o Join(Tail(parts))

ZonesPath(search_name) == <<"zones?filter=absoluteName:eq('">> \o search_name \o <<"')">>

RECURSIVE RStrip(_, _)
\* str.rstrip(chars): drops trailing characters that are in chars
RStrip(s, chars) ==
    IF Len(s) > 0 /\ \E i \in 1..Len(chars) : chars[i] = s[Len(s)]
    THEN RStrip(SubSeq(s, 1, Len(s) - 1), chars)
    ELSE s

\* line 443: relative_domain_name
RelativeDomainName(fqdn, absoluteName) == RStrip(fqdn, <<".">> \o absoluteName)

ValidateSkipped(c) == "ok"

\* record_a_create, lines 407-429: the error the argument checks raise ("ok": none)
Validate(c) ==
    IF ~c.views.isList THEN "TypeError: views must be a list of strings"
    ELSE IF Len(c.views.items) = 0 THEN "ValueError: views must contain at least one item"
    ELSE IF ~c.views.allStr THEN "TypeError: all items in views must be strings"
    ELSE IF c.ips = "empty list" THEN "ValueError: ipaddresses must contain at least one item"
    ELSE IF c.ips = "list with non-str" THEN "TypeError: all items in ipaddresses must be strings"
    ELSE IF c.ips \notin {"list of str", "str"}
         THEN "TypeError: ipaddresses must be a string, or list of strings"
    ELSE IF ~c.fqdnIsStr THEN "TypeError: fqdn must be a string"
    ELSE IF c.comment \notin {"None", "str"}
         THEN "TypeError: change_control_comment must be a string or None"
    ELSE "ok"

FilterZonesKeepsAll(zs, views) == zs

\* line 438: the zones whose view name is in views
FilterZones(zs, views) ==
    SelectSeq(zs, LAMBDA z : \E i \in 1..Len(views.items) : views.items[i] = ZoneView[z])

\* record_a_create, lines 434-466, on what find_parent_zones returned or raised to
\* the call c
AfterFind(c, r, n) ==
    IF r.tag = "raise" THEN Finish(r, n)
    ELSE IF r.tag # "list" \/ Len(r.val) = 0
    THEN Finish(Raises("ValueError: Unable to find parent zone"), n)
    ELSE IF Len(FilterZones(r.val, c.views)) = 0
    THEN Finish(Raises("ValueError: Parent zone does not exist in views"), n)
    ELSE IF session.state = "None"
    THEN Finish(Raises("AttributeError"), n)
    ELSE [n EXCEPT !.pc = "post", !.zones = FilterZones(r.val, c.views), !.zone_idx = 1]

\* find_parent_zones returns or raises r to the call c
FindDone(c, r, n) ==
    IF c.op = "record_a_create" THEN AfterFind(c, r, n) ELSE Finish(r, n)

\* find_parent_zones, lines 376-378 and 386: the test of the while loop and what follows
FindLoop(c, n) ==
    IF Len(n.name_parts) > 1
    THEN LET g == BeginGetAll(ZonesPath(Join(n.name_parts)), n)
         IN IF g.pc = "done" THEN FindDone(c, g.result, [g EXCEPT !.pc = n.pc, !.result = n.result])
            ELSE g
    ELSE FindDone(c, ReturnsNone, n)

DropRightmost(parts) == SubSeq(parts, 1, Len(parts) - 1)

\* line 384: name_parts.pop(0)
DropLeftmost(parts) == Tail(parts)

\* line 380: if zones
ZonesFound(zs) == Len(zs) > 0

\* find_parent_zones, lines 380-384, on what http_get_all returned or raised
AfterZonesQuery(out, n) ==
    IF out.tag = "raise" THEN FindDone(call, out, n)
    ELSE LET q == [n EXCEPT !.queries = Append(n.queries, [name |-> Join(n.name_parts),
                                                           zones |-> out.val])]
         IN IF ZonesFound(out.val) THEN FindDone(call, out, q)
            ELSE FindLoop(call, [q EXCEPT !.name_parts = DropLeftmost(q.name_parts)])

\* the caller of http_get_all goes on with what it returned or raised
AfterGetAll(out, n) ==
    CASE call.op = "http_get_all" -> Finish(out, n)
      [] call.op = "get_network_by_cidr" -> Finish(NetworkByCidrResult(out), n)
      [] call.op = "get_cidr_contains_ip" -> Finish(CidrContainsIpResult(out), n)
      [] call.op = "get_view" -> Finish(ViewResult(out), n)
      [] call.op = "get_unassigned_addresses_in_network_by_cidr" /\ stage = "network" ->
            LET network == NetworkByCidrResult(out)
            IN IF network.tag = "raise" THEN Finish(network, n)
               ELSE IF network.tag = "None" THEN Finish(Raises(NoneSubscriptError), n)
               ELSE BeginGetAll(AddressesPath(network.val[1]), [n EXCEPT !.stage = "addresses"])
      [] call.op = "get_unassigned_addresses_in_network_by_cidr" /\ stage = "addresses" ->
            Finish(UnassignedResult(out), n)
      [] call.op \in {"find_parent_zones", "record_a_create"} -> AfterZonesQuery(out, n)

----------------------------------------------------------------------------
(* The operations *)

\* a call begins: no call is in flight
StartCall ==
    /\ pc = "idle"
    /\ reqs' = <<>>
    /\ closes' = 0
    /\ UNCHANGED <<sessionVars, scopeVars, logoutCalled>>

\* http_get_limited
HttpGetLimited ==
    /\ pc = "idle"
    /\ call' = [NoCall EXCEPT !.op = "http_get_limited", !.loggedIn = logged_in]
    /\ closes' = 0
    /\ \E endpoint_path \in {<<"/", "r">>, <<"r">>, url_api_path \o <<"/", "r">>} :
        IF ~LoggedInGuard
        THEN /\ reqs' = <<>>
             /\ Apply(Finish(Raises(NotLoggedInError), Cur))
        ELSE IF session.state = "None"
        THEN /\ reqs' = <<>>
             /\ Apply(Finish(Raises("AttributeError"), Cur))
        ELSE \E resp \in Responses(EndpointUrl(endpoint_path)) :
             /\ reqs' = <<Request("GET", EndpointUrl(endpoint_path))>>
             /\ Apply(Finish(IF resp.status # "ok" THEN Raises(resp.status)
                             ELSE Returns("json", resp.data.items), Cur))
    /\ UNCHANGED <<sessionVars, scopeVars, logoutCalled>>

\* http_get_all(endpoint_path), up to its first request
HttpGetAll ==
    /\ StartCall
    /\ call' = [NoCall EXCEPT !.op = "http_get_all", !.loggedIn = logged_in]
    /\ \E endpoint_path \in {<<"/", "r">>, <<"r">>, url_api_path \o <<"/", "r">>} :
        Apply(BeginGetAll(endpoint_path, Cur))

\* get_network_by_cidr(target_cidr), up to its first request
GetNetworkByCidr ==
    /\ StartCall
    /\ call' = [NoCall EXCEPT !.op = "get_network_by_cidr", !.loggedIn = logged_in]
    /\ Apply(BeginGetAll(NetworksByCidrPath, Cur))

\* get_cidr_contains_ip(ip_address), up to its first request
GetCidrContainsIp ==
    /\ StartCall
    /\ call' = [NoCall EXCEPT !.op = "get_cidr_contains_ip", !.loggedIn = logged_in]
    /\ Apply(BeginGetAll(NetworksContainsPath, Cur))

\* get_view(view_name), up to its first request
GetView ==
    /\ StartCall
    /\ call' = [NoCall EXCEPT !.op = "get_view", !.loggedIn = logged_in]
    /\ Apply(BeginGetAll(ViewsPath, Cur))

\* get_unassigned_addresses_in_network_by_cidr(target_cidr), up to its first request
GetUnassignedAddresses ==
    /\ StartCall
    /\ call' = [NoCall EXCEPT !.op = "get_unassigned_addresses_in_network_by_cidr",
                              !.loggedIn = logged_in]
    /\ Apply(BeginGetAll(NetworksByCidrPath, [Cur EXCEPT !.stage = "network"]))

\* the fqdn arguments: "a", "a.b", "a.b.c", "a.b." and "ab.b.c"
Fqdns == {<<"a">>, <<"a", ".", "b">>, <<"a", ".", "b", ".", "c">>, <<"a", ".", "b", ".">>,
          <<"a", "b", ".", "b", ".", "c">>}

\* find_parent_zones(fqdn), up to its first request
FindParentZones ==
    /\ StartCall
    /\ \E fqdn \in Fqdns :
        /\ call' = [NoCall EXCEPT !.op = "find_parent_zones", !.loggedIn = logged_in,
                                  !.fqdn = fqdn]
        /\ Apply(FindLoop(call', [Cur EXCEPT !.name_parts = Split(fqdn)]))

ViewArgs == {ListArg(FALSE, <<>>, TRUE), ListArg(TRUE, <<>>, TRUE),
             ListArg(TRUE, <<"internal">>, FALSE), ListArg(TRUE, <<"internal">>, TRUE),
             ListArg(TRUE, <<"internal", "external">>, TRUE), ListArg(TRUE, <<"dmz">>, TRUE)}
IpArgs == {"empty list", "list with non-str", "list of str", "str", "int"}
CommentArgs == {"None", "str", "int"}

\* record_a_create(views, fqdn, ipaddresses, change_control_comment), up to its first request
RecordACreate ==
    /\ StartCall
    /\ \E views \in ViewArgs, ips \in IpArgs, comment \in CommentArgs,
          fqdn \in Fqdns, fqdnIsStr \in BOOLEAN :
        LET c == [NoCall EXCEPT !.op = "record_a_create", !.loggedIn = logged_in,
                                !.views = views, !.ips = ips, !.comment = comment,
                                !.fqdn = IF fqdnIsStr THEN fqdn ELSE <<>>,
                                !.fqdnIsStr = fqdnIsStr]
        IN /\ call' = c
           /\ IF Validate(c) # "ok"
              THEN Apply(Finish(Raises(Validate(c)), Cur))
              ELSE Apply(FindLoop(c, [Cur EXCEPT !.name_parts = Split(c.fqdn)]))

\* one pass of the while loop of http_get_all: the GET of url and what follows it,
\* up to the next request of the operation
GetPage ==
    /\ pc = "get"
    /\ closes' = 0
    /\ UNCHANGED <<sessionVars, scopeVars, logoutCalled, call>>
    /\ IF session.state = "None"
       THEN /\ reqs' = reqs
            /\ Apply(AfterGetAll(Raises("AttributeError"), Cur))
       ELSE \E resp \in Responses(url) :
            LET p == LoopPass(resp)
                n == [Cur EXCEPT !.url = p.url, !.all_data = p.all_data,
                                 !.fetched = IF call.op = "http_get_all"
                                             THEN Append(fetched, resp) ELSE fetched]
            IN /\ reqs' = IF resp.status = "MissingSchema" THEN reqs
                          ELSE Append(reqs, [Request("GET", url) EXCEPT !.status = resp.status])
               /\ IF p.done THEN Apply(AfterGetAll(p.out, n)) ELSE Apply(n)

\* what the POST to a zone's resourceRecords can do
PostOutcomes == {"ok", "HTTPError", "ConnectionError"}

\* lines 414-421 and 446-452: the addresses of the record, one per IP address
AddressList(ips) == IF ips = "str" THEN <<"ip1">> ELSE <<"ip1", "ip2">>

PostFailureIgnored(outcome) == FALSE

\* line 469: response.raise_for_status() (or session.post) raises
PostFails(outcome) == outcome # "ok"

\* one pass of the for loop of record_a_create, lines 466-471
PostRecord ==
    /\ pc = "post"
    /\ closes' = 0
    /\ UNCHANGED <<sessionVars, scopeVars, logoutCalled, call>>
    /\ \E outcome \in PostOutcomes :
        /\ reqs' = Append(reqs, [Request("POST", url_base \o url_api_path
                                     \o <<"/", "zones", "/", IdTok[zones[zone_idx]], "/",
                                          "resourceRecords">>)
                                 EXCEPT !.status = outcome,
                                        !.zone = zones[zone_idx],
                                        !.name = RelativeDomainName(call.fqdn,
                                                                    Join(name_parts)),
                                        !.addresses = AddressList(call.ips)])
        /\ IF PostFails(outcome) THEN Apply(Finish(Raises(outcome), Cur))
           ELSE IF zone_idx < Len(zones) THEN Apply([Cur EXCEPT !.zone_idx = zone_idx + 1])
           ELSE Apply(Finish(ReturnsTrue, Cur))

\* the call returns or raises to its caller, and its locals are gone
Return ==
    /\ pc = "done"
    /\ pc' = "idle"
    /\ call' = NoCall
    /\ result' = NoResult
    /\ reqs' = <<>>
    /\ closes' = 0
    /\ url' = NoUrl
    /\ all_data' = <<>>
    /\ fetched' = <<>>
    /\ stage' = "none"
    /\ name_parts' = <<>>
    /\ zones' = <<>>
    /\ zone_idx' = 0
    /\ queries' = <<>>
    /\ wasLoggedIn' = (scope = "in" /\ wasLoggedIn)
    /\ patchIssued' = (scope = "in" /\ patchIssued)
    /\ UNCHANGED <<sessionVars, scope, logoutCalled>>

\* the client used without a with-block
Next ==
    \/ Login
    \/ Logout
    \/ HttpGetLimited
    \/ HttpGetAll
    \/ GetNetworkByCidr
    \/ GetCidrContainsIp
    \/ GetView
    \/ GetUnassignedAddresses
    \/ FindParentZones
    \/ RecordACreate
    \/ GetPage
    \/ PostRecord
    \/ Return

Spec == Init /\ [][Next]_vars

\* the client used in with-blocks as well
ScopedNext ==
    \/ Enter
    \/ Exit
    \/ Next

ScopedSpec == Init /\ [][ScopedNext]_vars

\* the pagination engine alone.  The client is sequential and blocking: a call that
\* has a request to make makes it
PagingNext ==
    \/ Login
    \/ Logout
    \/ HttpGetAll
    \/ GetPage
    \/ Return

PagingSpec == Init /\ [][PagingNext]_vars /\ WF_vars(GetPage)

----------------------------------------------------------------------------
(* Session state machine *)

LoggedOutOps == {"http_get_limited", "http_get_all", "get_network_by_cidr",
                 "get_cidr_contains_ip", "get_unassigned_addresses_in_network_by_cidr",
                 "get_view", "find_parent_zones", "record_a_create"}

\* C1: no pagination GET and no record-create POST is ever issued while the session
\* is LoggedOut: every such request of the call in flight was issued with
\* self.logged_in true.
C1_NoRequestWhileLoggedOut ==
    call.op \in LoggedOutOps =>
        \A i \in 1..Len(reqs) : reqs[i].method \in {"GET", "POST"} => reqs[i].loggedIn

\* a record_a_create call that issued zone queries and create requests
C1_Witness ==
    /\ call.op = "record_a_create"
    /\ pc = "done"
    /\ result = ReturnsTrue
    /\ session.state = "open"
    /\ \E i \in 1..Len(reqs) : reqs[i].method = "GET"
    /\ \E i \in 1..Len(reqs) : reqs[i].method = "POST"

\* C2: every operation other than login and logout, invoked while LoggedOut (and,
\* for record_a_create, with valid arguments), fails with the unauthenticated-use
\* error, whatever its input.
C2_LoggedOutCallFails ==
    /\ pc = "done"
    /\ call.op \in LoggedOutOps
    /\ ~call.loggedIn
    /\ call.op = "record_a_create" => Validate(call) = "ok"
    => result = Raises(NotLoggedInError)

\* C3: after every logout() call the state is LoggedOut and the request context is
\* closed, and a failing LOGGED_OUT request is surfaced to the caller.
C3_LogoutAlwaysLogsOut ==
    pc = "done" /\ call.op = "logout" =>
        /\ ~logged_in
        /\ session.state # "open"
        /\ call.loggedIn /\ call.fault # "ok" => result = Raises(call.fault)

\* C4: when a with-block is left, by the normal end of its body or by an error, and
\* the session was LoggedIn inside the block, the LOGGED_OUT request has been issued.
C4_ExitLogsOut ==
    pc = "done" /\ call.op = "__exit__" /\ wasLoggedIn => patchIssued

\* a with-block left by an error while the session was LoggedIn
C4_Witness ==
    /\ pc = "done"
    /\ call.op = "__exit__"
    /\ call.exc
    /\ call.loggedIn
    /\ wasLoggedIn
    /\ Len(reqs) = 1

\* C5: a logout() of a LoggedIn session issues the LOGGED_OUT request once and closes
\* the context exactly once; a logout() that follows a logout() with no login() in
\* between issues no request, closes nothing, raises nothing and leaves the state
\* LoggedOut.
C5_LogoutIdempotent ==
    pc = "done" /\ call.op = "logout" =>
        /\ call.loggedIn /\ ~call.afterLogout =>
              Len(reqs) = 1 /\ reqs[1].method = "PATCH" /\ closes = 1
        /\ call.afterLogout =>
              reqs = <<>> /\ closes = 0 /\ result = ReturnsNone /\ ~logged_in

\* C6: login() on a LoggedOut session whose response carries no token returns False,
\* opens no request context and leaves the session LoggedOut.
C6_LoginNoToken ==
    pc = "done" /\ call.op = "login" /\ call.fault = "no_token" /\ ~call.loggedIn =>
        /\ result = ReturnsFalse
        /\ session.state # "open"
        /\ ~logged_in

\* a login without a token on a session that was never logged in
C6_Witness ==
    /\ pc = "done"
    /\ call.op = "login"
    /\ call.fault = "no_token"
    /\ ~call.loggedIn
    /\ session = NoSession

\* C7: a transport or parse failure during login() raises LoginError when debug is
\* False and the original error when debug is True, and the session does not become
\* LoggedIn.
C7_LoginFailure ==
    pc = "done" /\ call.op = "login" /\ call.fault \in LoginFailures =>
        /\ ~call.debug => result = Raises("LoginError")
        /\ call.debug => result = Raises(call.fault)
        /\ logged_in = call.loggedIn

\* a login with debug=True that failed on undecodable JSON, the session LoggedOut
C7_Witness ==
    /\ pc = "done"
    /\ call.op = "login"
    /\ call.debug
    /\ call.fault = "requests.JSONDecodeError"
    /\ ~logged_in

----------------------------------------------------------------------------
(* Pagination *)

RECURSIVE ConcatItems(_)
\* the entities of a chain of pages, in page order
ConcatItems(chain) ==
    IF chain = <<>> THEN <<>> ELSE Head(chain).data.items \o ConcatItems(Tail(chain))

\* the page ends its chain: it is empty or carries no next link
EndsChain(page) == page.count = 0 \/ page.next = NoUrl

\* the URL of the i-th page of the chain of endpoint r
ChainUrl(i) ==
    IF i = 1 THEN Https \o hostname \o <<"/", "a", "p", "i", "/", "v", "2", "/", "r">>
    ELSE Https \o hostname \o <<"/", "a", "p", "i", "/", "v", "2", "/", PageTok[i]>>

\* C8: when every page served to an http_get_all call is well formed, the call
\* returns the concatenation, in fetch order, of the data of the pages up to the
\* first page that is empty or carries no next link; that page is the last one
\* requested, and the i-th request is for the i-th page of the chain.
C8_ConcatenatesInOrder ==
    /\ pc = "done"
    /\ call.op = "http_get_all"
    /\ fetched # <<>>
    /\ \A i \in 1..Len(fetched) : WellFormed(fetched[i])
    => /\ result = ReturnsList(ConcatItems(fetched))
       /\ EndsChain(fetched[Len(fetched)])
       /\ \A i \in 1..(Len(fetched) - 1) : ~EndsChain(fetched[i])
       /\ Len(reqs) = Len(fetched)
       /\ \A i \in 1..Len(reqs) : reqs[i].method = "GET" /\ reqs[i].url = ChainUrl(i)

\* a chain of three well-formed pages with different data was fetched
C8_Witness ==
    /\ pc = "done"
    /\ call.op = "http_get_all"
    /\ Len(fetched) = 3
    /\ \A i \in 1..Len(fetched) : WellFormed(fetched[i])
    /\ fetched[1].data.items = <<1, 2>>
    /\ fetched[2].data.items = <<2>>
    /\ fetched[3].data.items = <<1>>

\* C9: http_get_all makes at most one GET per page of the chain, never two for the
\* same URL, and the call completes.
C9_Terminates ==
    /\ [](call.op = "http_get_all" =>
            /\ Len(reqs) <= MaxPages
            /\ \A i, j \in 1..Len(reqs) : reqs[i].url = reqs[j].url => i = j)
    /\ (call.op = "http_get_all" /\ pc = "get") ~> (call.op = "http_get_all" /\ pc = "done")

\* a call that followed the chain to its last page
C9_Witness ==
    /\ pc = "done"
    /\ call.op = "http_get_all"
    /\ Len(reqs) = MaxPages
    /\ result.tag = "list"

\* C10: a page with count == 0, at any position, ends the call at once: the call
\* returns the entities of the pages before it, whatever the page's data field
\* holds and whether or not the page carries a next link.
C10_ZeroCountStops ==
    call.op = "http_get_all" =>
        \A i \in 1..Len(fetched) :
            fetched[i].status = "ok" /\ fetched[i].count = 0 =>
                /\ i = Len(fetched)
                /\ pc = "done"
                /\ result = ReturnsList(ConcatItems(SubSeq(fetched, 1, i - 1)))
                /\ Len(reqs) = i

\* an empty page with a null data field and a next link, after a page with entities
C10_Witness ==
    /\ pc = "done"
    /\ call.op = "http_get_all"
    /\ Len(fetched) = 2
    /\ fetched[2].status = "ok"
    /\ fetched[2].count = 0
    /\ fetched[2].data.shape = "null"
    /\ fetched[2].next # NoUrl
    /\ result = ReturnsList(<<1, 2>>)

\* C11: a page with count > 0 whose data field is not a list (absent included) makes
\* http_get_all fail with a TypeError, and the call returns no result.
C11_NonListDataIsTypeError ==
    call.op = "http_get_all" =>
        \A i \in 1..Len(fetched) :
            fetched[i].status = "ok" /\ fetched[i].count > 0
            /\ fetched[i].data.shape # "list" =>
                /\ i = Len(fetched)
                /\ pc = "done"
                /\ result = Raises("TypeError")

\* C12: a page without a count field, first or later, makes http_get_all fail with
\* the structural error; the entities accumulated before it are not returned.
C12_CountMissingFails ==
    call.op = "http_get_all" =>
        \A i \in 1..Len(fetched) :
            fetched[i].status = "ok" /\ fetched[i].count = CountAbsent =>
                /\ i = Len(fetched)
                /\ pc = "done"
                /\ result = Raises(CountMissingError)

\* a page without count after a page with entities
C12_Witness ==
    /\ pc = "done"
    /\ call.op = "http_get_all"
    /\ Len(fetched) = 2
    /\ fetched[1].data.items = <<1, 2>>
    /\ fetched[2].status = "ok"
    /\ fetched[2].count = CountAbsent
    /\ fetched[2].data.items = <<1>>
    /\ result.tag = "raise"

\* the link has a scheme: it is an absolute URL
IsAbsoluteUrl(link) ==
    \/ StartsWith(link, <<"h", "t", "t", "p", ":", "/", "/">>)
    \/ StartsWith(link, <<"h", "t", "t", "p", "s", ":", "/", "/">>)

\* the URL to follow for a next link, as specified
FollowedUrl(link) ==
    IF IsAbsoluteUrl(link) THEN link
    ELSE IF link[1] = "/" THEN <<"h", "t", "t", "p", "s", ":", "/", "/">> \o hostname \o link
    ELSE <<"h", "t", "t", "p", "s", ":", "/", "/">> \o hostname \o <<"/">> \o link

\* C13: the URL followed for a next link is the link itself when it is absolute,
\* https://host + link when it starts with '/', and https://host + '/' + link for
\* every other relative link.
C13_NextLinkResolution ==
    call.op = "http_get_all" /\ pc = "get" /\ fetched # <<>> =>
        url = FollowedUrl(fetched[Len(fetched)].next)

----------------------------------------------------------------------------
(* Record creation and zone resolution *)

\* the create requests the call in flight has issued, in order
Posts == SelectSeq(reqs, LAMBDA r : r.method = "POST")

\* what find_parent_zones found: the zones of its last completed query
FoundZones == IF queries = <<>> THEN <<>> ELSE queries[Len(queries)].zones
FoundApex == IF queries = <<>> THEN <<>> ELSE queries[Len(queries)].name

RequestedViews == {call.views.items[i] : i \in 1..Len(call.views.items)}

\* the found zones that are in a requested view, in the order they were returned
ZonesInViews == SelectSeq(FoundZones, LAMBDA z : ZoneView[z] \in RequestedViews)

ResourceRecordsUrl(z) ==
    <<"h", "t", "t", "p", "s", ":", "/", "/">> \o hostname
    \o <<"/", "a", "p", "i", "/", "v", "2", "/", "zones", "/", IdTok[z], "/", "resourceRecords">>

\* C14: the create requests of record_a_create go to the found zones that are in a
\* requested view, one per zone and in the order the zones were returned, and to no
\* other zone; a call that returns has issued all of them; when no zone is found or
\* none is in a requested view the call fails and issues none.
C14_CreatesInRequestedViews ==
    call.op = "record_a_create" =>
        /\ Len(Posts) <= Len(ZonesInViews)
        /\ \A i \in 1..Len(Posts) :
              Posts[i].zone = ZonesInViews[i] /\ Posts[i].url = ResourceRecordsUrl(ZonesInViews[i])
        /\ pc = "done" /\ result.tag # "raise" => Len(Posts) = Len(ZonesInViews)
        /\ pc = "done" /\ ZonesInViews = <<>> => result.tag = "raise" /\ Posts = <<>>

\* zones of both views were found, only "internal" was requested, one record was created
C14_Witness ==
    /\ call.op = "record_a_create"
    /\ pc = "done"
    /\ result = ReturnsTrue
    /\ call.views.items = <<"internal">>
    /\ FoundZones = <<1, 2>>
    /\ Len(Posts) = 1
    /\ Posts[1].zone = 1

\* C15: when the create request for the N-th zone fails, record_a_create fails with
\* that error, the N-1 records created before stay (every request of the call is a
\* zone query or a create), and no create request follows the failing one.
C15_PartialFailure ==
    call.op = "record_a_create" =>
        \A i \in 1..Len(reqs) :
            reqs[i].method = "POST" /\ reqs[i].status # "ok" =>
                /\ i = Len(reqs)
                /\ pc = "done"
                /\ result = Raises(reqs[i].status)
                /\ \A j \in 1..Len(reqs) : reqs[j].method \in {"GET", "POST"}
                /\ \A j \in 1..(Len(Posts) - 1) :
                      Posts[j].status = "ok" /\ Posts[j].zone = ZonesInViews[j]

\* the second of two create requests failed
C15_Witness ==
    /\ call.op = "record_a_create"
    /\ pc = "done"
    /\ Len(Posts) = 2
    /\ Posts[1].status = "ok"
    /\ Posts[2].status = "HTTPError"
    /\ Len(ZonesInViews) = 2
    /\ result = Raises("HTTPError")

EndsWith(s, suffix) ==
    Len(s) >= Len(suffix) /\ SubSeq(s, Len(s) - Len(suffix) + 1, Len(s)) = suffix

\* C16: for an fqdn that ends with "." + apex, the record name sent, followed by "."
\* and the apex of the matched zone, is the fqdn.
C16_RelativeNameIsPrefix ==
    call.op = "record_a_create" =>
        \A i \in 1..Len(Posts) :
            EndsWith(call.fqdn, <<".">> \o FoundApex) =>
                Posts[i].name \o <<".">> \o FoundApex = call.fqdn

RECURSIVE AfterFirstDot(_)
\* the name without its leftmost label
AfterFirstDot(s) ==
    IF s = <<>> THEN <<>>
    ELSE IF Head(s) = "." THEN Tail(s)
    ELSE AfterFirstDot(Tail(s))

RECURSIVE Candidate(_, _)
\* the i-th candidate name of an fqdn, from the most specific
Candidate(fqdn, i) == IF i = 1 THEN fqdn ELSE Candidate(AfterFirstDot(fqdn), i - 1)

Dots(s) == Cardinality({i \in 1..Len(s) : s[i] = "."})

ZoneQueryUrl(name) ==
    <<"h", "t", "t", "p", "s", ":", "/", "/">> \o hostname
    \o <<"/", "a", "p", "i", "/", "v", "2", "/", "zones?filter=absoluteName:eq('">>
    \o name \o <<"')">>

\* the first requests of the zone queries of the call in flight
ZoneQueryRequests == SelectSeq(reqs, LAMBDA r : r.method = "GET" /\ PageDepth(r.url) = 1)

FindOps == {"find_parent_zones", "record_a_create"}

\* C17: find_parent_zones queries the candidate names from the full name on, each
\* obtained by dropping the leftmost label of the one before; every query before the
\* last returned no zone; a query that returns zones is the last, and its zones are
\* what is returned.
C17_MostSpecificFirst ==
    call.op \in FindOps =>
        /\ Len(queries) <= Dots(call.fqdn)
        /\ \A i \in 1..Len(queries) :
              /\ queries[i].name = Candidate(call.fqdn, i)
              /\ i < Len(queries) => queries[i].zones = <<>>
        /\ \A i \in 1..Len(ZoneQueryRequests) :
              ZoneQueryRequests[i].url = ZoneQueryUrl(Candidate(call.fqdn, i))
        /\ FoundZones # <<>> => pc \in {"post", "done"}
        /\ pc = "done" /\ call.op = "find_parent_zones" /\ result.tag = "list" =>
              FoundZones # <<>> /\ result.val = FoundZones

\* for a.b.c, the query for a.b.c returned nothing and the query for b.c two zones
C17_Witness ==
    /\ call.op = "find_parent_zones"
    /\ pc = "done"
    /\ call.fqdn = <<"a", ".", "b", ".", "c">>
    /\ Len(queries) = 2
    /\ queries[2].name = <<"b", ".", "c">>
    /\ result = ReturnsList(<<1, 2>>)

\* the number of non-empty labels of a name
NonEmptyLabels(s) ==
    Cardinality({i \in 1..Len(s) : s[i] # "." /\ (i = 1 \/ s[i - 1] = ".")})

\* C18: every name find_parent_zones queries has at least two non-empty labels, and
\* when no query returns a zone the result is None.
C18_NoBareLabelQuery ==
    call.op = "find_parent_zones" =>
        /\ \A i \in 1..Len(queries) : NonEmptyLabels(queries[i].name) >= 2
        /\ pc = "done" /\ result.tag # "raise" /\ FoundZones = <<>> => result = ReturnsNone

ValidationErrors ==
    {"TypeError: views must be a list of strings",
     "ValueError: views must contain at least one item",
     "TypeError: all items in views must be strings",
     "ValueError: ipaddresses must contain at least one item",
     "TypeError: all items in ipaddresses must be strings",
     "TypeError: ipaddresses must be a string, or list of strings",
     "TypeError: fqdn must be a string"}

\* views is empty or no list of strings, ipaddresses is an empty list or neither a
\* string nor a list of strings, or fqdn is no string
InvalidArguments(c) ==
    \/ ~c.views.isList \/ c.views.items = <<>> \/ ~c.views.allStr
    \/ c.ips \notin {"str", "list of str"}
    \/ ~c.fqdnIsStr

\* C19: record_a_create called with invalid arguments fails with a validation error
\* and issues no request; a single string ipaddresses gives a record of one address.
C19_ValidatesBeforeNetwork ==
    call.op = "record_a_create" =>
        /\ InvalidArguments(call) =>
              /\ reqs = <<>>
              /\ pc = "done"
              /\ result.tag = "raise"
              /\ result.exc \in ValidationErrors
        /\ call.ips = "str" => \A i \in 1..Len(Posts) : Len(Posts[i].addresses) = 1

\* a logged-in call with valid views and fqdn and an ipaddresses that is an int
C19_Witness ==
    /\ call.op = "record_a_create"
    /\ pc = "done"
    /\ call.loggedIn
    /\ call.views = ListArg(TRUE, <<"internal", "external">>, TRUE)
    /\ call.fqdn = <<"a", ".", "b", ".", "c">>
    /\ call.ips = "int"
    /\ result = Raises("TypeError: ipaddresses must be a string, or list of strings")

\* the addresses that count as unassigned
UnassignedIds ==
    {e \in 1..Len(Addresses) :
        \/ Addresses[e].state = "UNASSIGNED"
        \/ Addresses[e].state = "STATIC" /\ Addresses[e].resourceRecords = <<>>}

\* C20: the unassigned-address result is the subsequence, in server order, of the
\* fetched addresses that are UNASSIGNED, or STATIC without resource records.
C20_UnassignedFilter ==
    /\ call.op = "get_unassigned_addresses_in_network_by_cidr"
    /\ pc = "done"
    /\ stage = "addresses"
    /\ result.tag # "raise"
    => result = ReturnsList(SelectSeq(all_data, LAMBDA e : e \in UnassignedIds))

\* two pages of addresses of every kind
C20_Witness ==
    /\ call.op = "get_unassigned_addresses_in_network_by_cidr"
    /\ pc = "done"
    /\ all_data = <<2, 4, 3, 5, 2, 1, 3>>
    /\ result = ReturnsList(<<2, 5, 2, 1>>)

----------------------------------------------------------------------------
(* Lookups *)

\* what http_get_all raises
PaginationErrors ==
    {NotLoggedInError, "AttributeError", "HTTPError", "ConnectionError", "MissingSchema",
     CountMissingError, "KeyError", "TypeError"}

\* the call in flight ended, and not by an error of its last http_get_all: all_data is
\* what that http_get_all returned
PaginationReturned == pc = "done" /\ result.exc \notin PaginationErrors

\* the requests for the address list of a network
AddressListRequests ==
    SelectSeq(reqs, LAMBDA r : \E i \in 1..Len(r.url) : r.url[i] = AddressesTail)

\* C21: when the network query of get_unassigned_addresses_in_network_by_cidr returns
\* no network or several, the call fails with a ValueError and issues no
\* address-list request.
C21_NoSingleNetworkIsValueError ==
    /\ call.op = "get_unassigned_addresses_in_network_by_cidr"
    /\ stage = "network"
    /\ PaginationReturned
    => /\ Len(all_data) # 1
       /\ result = Raises("ValueError")
       /\ AddressListRequests = <<>>

\* C22: on the n entities pagination returned, get_network_by_cidr and get_view
\* return None for n = 0, the entity for n = 1 and fail for n >= 2;
\* get_cidr_contains_ip returns for n = 1 and fails for every other n.
C22_CardinalityPolicy ==
    PaginationReturned =>
        LET n == Len(all_data)
        IN /\ call.op \in {"get_network_by_cidr", "get_view"} =>
                /\ n = 0 => result = ReturnsNone
                /\ n = 1 => result = ReturnsItem(all_data[1])
                /\ n >= 2 => result.tag = "raise"
           /\ call.op = "get_cidr_contains_ip" =>
                /\ n = 1 => result = Returns("range", <<all_data[1]>>)
                /\ n # 1 => result.tag = "raise"

\* get_cidr_contains_ip on a server that answered with no network
C22_Witness ==
    /\ call.op = "get_cidr_contains_ip"
    /\ PaginationReturned
    /\ reqs # <<>>
    /\ all_data = <<>>
    /\ result = Raises("ValueError")

----------------------------------------------------------------------------
(* Request contexts *)

\* C23: at most one Session the client created is open at any time, and after a
\* logout() that completes without error none is.
C23_AtMostOneOpenSession ==
    /\ open_sessions <= 1
    /\ pc = "done" /\ call.op = "logout" /\ result.tag # "raise" => open_sessions = 0

\* C24: whenever the client is LoggedIn its Session exists, is open and carries the
\* Authorization header; every request of an operation that passed the logged-in
\* guard is made LoggedIn with that header, and no operation finds the Session missing.
C24_LoggedInHasOpenSession ==
    /\ logged_in => session.state = "open" /\ session.authorization
    /\ call.op \in LoggedOutOps =>
          /\ \A i \in 1..Len(reqs) : reqs[i].loggedIn /\ reqs[i].authorization
          /\ pc \in {"get", "post"} => logged_in /\ session.state = "open"
          /\ result.exc # "AttributeError"

\* a login that failed on a client that was LoggedIn, after an earlier logout
C24_Witness ==
    /\ call.op = "login"
    /\ pc = "done"
    /\ call.loggedIn
    /\ call.fault = "HTTPError"
    /\ logged_in
    /\ open_sessions = 2
====
